---- MODULE Spec2Model ----
(***************************************************************************)
(* Byte/script helpers of src/lib.rs: hex <-> bytes, byte reversal,        *)
(* little-endian encoding of u32, script classification, push-data         *)
(* extraction, opcode decoding, fee subtraction and the UTXO spend.        *)
(*                                                                         *)
(* Representation.                                                         *)
(*  - A byte is a number in 0..255, a byte slice / Vec<u8> a sequence.     *)
(*  - A &str is a sequence of characters, each character the sequence of   *)
(*    its UTF-8 bytes; the hex crate reads the str through as_ref(), i.e.  *)
(*    as the concatenation of those bytes (Utf8).                          *)
(*  - TLC's integers are 32 bits wide, so a u32 / u64 keeps its full width *)
(*    as a sequence of 16-bit limbs, least-significant limb first (2 limbs *)
(*    for u32, 4 for u64); arithmetic is done limb by limb with borrow.    *)
(*  - Result<T,E> is Ok(v) / Err(e).  A call that can panic returns a      *)
(*    record with a panicked flag.                                         *)
(***************************************************************************)
EXTENDS Integers, Sequences, FiniteSets, TLC

VARIABLES op, arg, res, utxo, consumed

vars == <<op, arg, res, utxo, consumed>>

-----------------------------------------------------------------------------
(* Bounds of the model. *)

\* longest byte slice passed to a function
MaxLen == 4
\* longest text (in characters) passed to the hex decoders
MaxTextLen == 3
\* longest txid of a constructed UTXO
MaxTxidLen == 3
\* most consume_utxo calls in a row on one UTXO
MaxConsume == 3

-----------------------------------------------------------------------------
(* Values. *)

Byte == 0..255

\* bytes used in slices longer than one byte: both nibble extremes, a digit-only
\* byte, letter nibbles, and the first-byte cases of classify_script
SampleBytes == {0, 1, 15, 160, 170, 255}

SeqsUpTo(S, n) == UNION {[1..k -> S] : k \in 0..n}

\* every one-byte slice, and the slices over SampleBytes up to MaxLen
ByteSeqs == SeqsUpTo(SampleBytes, MaxLen) \cup {<<b>> : b \in Byte}

LimbBase == 2^16

\* 16-bit limb values: zero, one, both byte boundaries, a mixed value, the maximum
SampleLimbs == {0, 1, 255, 256, 4660, LimbBase - 1}

U32s == [1..2 -> SampleLimbs]

Zero64 == <<0, 0, 0, 0>>

\* 0, 1, 500, 2^16, 2^32, 2^63 + 1, 2^64 - 1
U64s == {Zero64, <<1, 0, 0, 0>>, <<500, 0, 0, 0>>, <<0, 1, 0, 0>>, <<0, 0, 1, 0>>,
         <<1, 0, 0, 32768>>,
         <<LimbBase - 1, LimbBase - 1, LimbBase - 1, LimbBase - 1>>}

Ok(v) == [ok |-> TRUE, val |-> v]

Err(e) == [ok |-> FALSE, err |-> e]

\* characters of the input texts, as UTF-8: '0' '9' 'a' 'f' 'A' 'F', the
\* neighbours of the three digit ranges '/' ':' '@' 'G' '`' 'g', and a
\* two-byte character (U+00E9)
SampleChars == {<<48>>, <<57>>, <<97>>, <<102>>, <<65>>, <<70>>,
                <<47>>, <<58>>, <<64>>, <<71>>, <<96>>, <<103>>, <<195, 169>>}

Texts == SeqsUpTo(SampleChars, MaxTextLen)

RECURSIVE Utf8(_)
Utf8(text) == IF text = <<>> THEN <<>> ELSE Head(text) \o Utf8(Tail(text))

-----------------------------------------------------------------------------
(* hex crate: encode / decode, as called from lib.rs. *)

HEX_CHARS_LOWER == <<48, 49, 50, 51, 52, 53, 54, 55, 56, 57, 97, 98, 99, 100, 101, 102>>

hex_encode(bytes) ==
    [i \in 1..(2 * Len(bytes)) |->
        LET b == bytes[(i + 1) \div 2]
        IN  IF i % 2 = 1 THEN HEX_CHARS_LOWER[(b \div 16) + 1]
                         ELSE HEX_CHARS_LOWER[(b % 16) + 1]]

val(c, idx) ==
    IF c \in 65..70 THEN Ok(c - 65 + 10)
    ELSE IF c \in 97..102 THEN Ok(c - 97 + 10)
    ELSE IF c \in 48..57 THEN Ok(c - 48)
    ELSE Err([kind |-> "InvalidHexCharacter", c |-> c, index |-> idx])

RECURSIVE decode_pairs(_, _, _)
decode_pairs(data, i, acc) ==
    IF 2 * i >= Len(data) THEN Ok(acc)
    ELSE LET hi == val(data[2 * i + 1], 2 * i)
             lo == val(data[2 * i + 2], 2 * i + 1)
         IN  IF ~hi.ok THEN hi
             ELSE IF ~lo.ok THEN lo
             ELSE decode_pairs(data, i + 1, Append(acc, hi.val * 16 + lo.val))

hex_decode(data) ==
    IF Len(data) % 2 # 0 THEN Err([kind |-> "OddLength"])
    ELSE decode_pairs(data, 0, <<>>)

-----------------------------------------------------------------------------
(* Limb arithmetic of the fixed-width unsigned integers. *)

RECURSIVE sub_limbs(_, _, _, _, _)
sub_limbs(a, b, i, borrow, acc) ==
    IF i > Len(a) THEN [val |-> acc, borrow |-> borrow]
    ELSE LET d == a[i] - b[i] - borrow
         IN  IF d < 0 THEN sub_limbs(a, b, i + 1, 1, Append(acc, d + LimbBase))
                      ELSE sub_limbs(a, b, i + 1, 0, Append(acc, d))

RECURSIVE leq_limbs(_, _, _)
leq_limbs(a, b, i) ==
    IF i = 0 THEN TRUE
    ELSE IF a[i] # b[i] THEN a[i] < b[i]
    ELSE leq_limbs(a, b, i - 1)

Leq(a, b) == leq_limbs(a, b, Len(a))

RECURSIVE le_bytes(_)
le_bytes(limbs) ==
    IF limbs = <<>> THEN <<>>
    ELSE <<Head(limbs) % 256, Head(limbs) \div 256>> \o le_bytes(Tail(limbs))

\* u32::to_be_bytes, used only by the faulty variant swap_endian_u32_be
RECURSIVE be_bytes(_)
be_bytes(limbs) ==
    IF limbs = <<>> THEN <<>>
    ELSE be_bytes(Tail(limbs)) \o <<Head(limbs) \div 256, Head(limbs) % 256>>

-----------------------------------------------------------------------------
(* The functions of lib.rs. *)

decode_hex(hex_str) ==
    LET r == hex_decode(hex_str)
    IN  IF r.ok THEN r ELSE Err(<<"Failed to decode hex: ", r.err>>)

\* faulty variant: the copy is returned without bytes.reverse()
to_big_endian_copy(bytes) == bytes

to_big_endian(bytes) == [i \in 1..Len(bytes) |-> bytes[Len(bytes) + 1 - i]]

\* faulty variant: the two digits of each byte are emitted in the wrong order
bytes_to_hex_low_nibble_first(bytes) ==
    [i \in 1..(2 * Len(bytes)) |->
        LET b == bytes[(i + 1) \div 2]
        IN  IF i % 2 = 1 THEN HEX_CHARS_LOWER[(b % 16) + 1]
                         ELSE HEX_CHARS_LOWER[(b \div 16) + 1]]

bytes_to_hex(bytes) == hex_encode(bytes)

\* faulty variant: a trailing unpaired digit is dropped instead of rejected
hex_to_bytes_truncating(hex) ==
    hex_decode(SubSeq(hex, 1, Len(hex) - (Len(hex) % 2)))

hex_to_bytes(hex) == hex_decode(hex)

\* faulty variant: to_be_bytes in place of to_le_bytes
swap_endian_u32_be(num) == be_bytes(num)

swap_endian_u32(num) == le_bytes(num)

ScriptType == {"P2PKH", "P2WPKH", "Unknown"}

\* faulty variant: the length test is >= 3 instead of == 3
classify_script_at_least_3(script) ==
    IF Len(script) >= 3
    THEN IF script[1] = 0 THEN "P2WPKH" ELSE "P2PKH"
    ELSE "Unknown"

classify_script(script) ==
    IF Len(script) = 3
    THEN IF script[1] = 0 THEN "P2WPKH" ELSE "P2PKH"
    ELSE "Unknown"

\* &script[2..] panics when 2 > script.len()
read_pushdata(script) ==
    IF Len(script) < 2 THEN [panicked |-> TRUE]
    ELSE [panicked |-> FALSE, val |-> SubSeq(script, 3, Len(script))]

\* *balance -= fee: with overflow checks (debug profile) an underflow panics
\* before the store; without them (release profile) it wraps modulo 2^64
apply_fee(balance, fee, overflow_checks) ==
    LET d == sub_limbs(balance, fee, 1, 0, <<>>)
    IN  IF d.borrow = 1 /\ overflow_checks
        THEN [panicked |-> TRUE, balance |-> balance]
        ELSE [panicked |-> FALSE, balance |-> d.val]

Opcode == {"OpChecksig", "OpDup", "OpInvalid"}

\* faulty variant: the 0x00 arm is missing, so 0x00 falls into the catch-all
from_byte_no_error(byte) ==
    IF byte = 172 THEN Ok("OpChecksig")
    ELSE IF byte = 118 THEN Ok("OpDup")
    ELSE Ok("OpInvalid")

from_byte(byte) ==
    IF byte = 172 THEN Ok("OpChecksig")
    ELSE IF byte = 118 THEN Ok("OpDup")
    ELSE IF byte = 0 THEN Err("Invalid opcode: 0x00")
    ELSE Ok("OpInvalid")

\* struct UTXO, built directly from its three fields with no validation
UTXOs == [txid : SeqsUpTo({0, 171}, MaxTxidLen), vout : U32s, value : U64s]

\* faulty variant: vout is zeroed instead of value
consume_utxo_wrong_field(u) == [u EXCEPT !.vout = <<0, 0>>]

\* faulty variant: the UTXO is returned without the assignment
consume_utxo_noop(u) == u

consume_utxo(u) == [u EXCEPT !.value = Zero64]

-----------------------------------------------------------------------------
(* Spec: a caller calls one function at a time on an input drawn from the  *)
(* bounded sets, then drops the result and calls again.  op names the      *)
(* function called ("none" between calls), arg its argument, res its       *)
(* result.                                                                 *)

NoUTXO == [txid |-> <<>>, vout |-> <<0, 0>>, value |-> Zero64]

Init ==
    /\ op = "none"
    /\ arg = <<>>
    /\ res = <<>>
    /\ utxo = NoUTXO
    /\ consumed = 0

CallDecodeHex ==
    /\ op = "none"
    /\ \E t \in Texts :
        /\ op' = "decode_hex"
        /\ arg' = t
        /\ res' = decode_hex(Utf8(t))
    /\ UNCHANGED <<utxo, consumed>>

CallHexToBytes ==
    /\ op = "none"
    /\ \E t \in Texts :
        /\ op' = "hex_to_bytes"
        /\ arg' = t
        /\ res' = hex_to_bytes(Utf8(t))
    /\ UNCHANGED <<utxo, consumed>>

CallBytesToHex ==
    /\ op = "none"
    /\ \E b \in ByteSeqs :
        /\ op' = "bytes_to_hex"
        /\ arg' = b
        /\ res' = bytes_to_hex(b)
    /\ UNCHANGED <<utxo, consumed>>

CallToBigEndian ==
    /\ op = "none"
    /\ \E b \in ByteSeqs :
        /\ op' = "to_big_endian"
        /\ arg' = b
        /\ res' = to_big_endian(b)
    /\ UNCHANGED <<utxo, consumed>>

CallSwapEndianU32 ==
    /\ op = "none"
    /\ \E n \in U32s :
        /\ op' = "swap_endian_u32"
        /\ arg' = n
        /\ res' = swap_endian_u32(n)
    /\ UNCHANGED <<utxo, consumed>>

CallClassifyScript ==
    /\ op = "none"
    /\ \E s \in ByteSeqs :
        /\ op' = "classify_script"
        /\ arg' = s
        /\ res' = classify_script(s)
    /\ UNCHANGED <<utxo, consumed>>

CallReadPushdata ==
    /\ op = "none"
    /\ \E s \in ByteSeqs :
        /\ op' = "read_pushdata"
        /\ arg' = s
        /\ res' = read_pushdata(s)
    /\ UNCHANGED <<utxo, consumed>>

CallApplyFee ==
    /\ op = "none"
    /\ \E b \in U64s, f \in U64s, c \in BOOLEAN :
        /\ op' = "apply_fee"
        /\ arg' = [balance |-> b, fee |-> f, overflow_checks |-> c]
        /\ res' = apply_fee(b, f, c)
    /\ UNCHANGED <<utxo, consumed>>

CallFromByte ==
    /\ op = "none"
    /\ \E b \in Byte :
        /\ op' = "from_byte"
        /\ arg' = b
        /\ res' = from_byte(b)
    /\ UNCHANGED <<utxo, consumed>>

CallConsumeUtxo ==
    /\ op = "none"
    /\ \E u \in UTXOs :
        /\ op' = "consume_utxo"
        /\ arg' = u
        /\ res' = consume_utxo(u)
    /\ UNCHANGED <<utxo, consumed>>

Return ==
    /\ op # "none"
    /\ op' = "none"
    /\ arg' = <<>>
    /\ res' = <<>>
    /\ UNCHANGED <<utxo, consumed>>

Next ==
    \/ CallDecodeHex
    \/ CallHexToBytes
    \/ CallBytesToHex
    \/ CallToBigEndian
    \/ CallSwapEndianU32
    \/ CallClassifyScript
    \/ CallReadPushdata
    \/ CallApplyFee
    \/ CallFromByte
    \/ CallConsumeUtxo
    \/ Return

Spec == Init /\ [][Next]_vars

-----------------------------------------------------------------------------
(* SpecUTXO: a UTXO is constructed, then consumed again and again, each    *)
(* call taking the value the previous one returned.                        *)

InitUTXO ==
    /\ op = "none"
    /\ arg = <<>>
    /\ res = <<>>
    /\ utxo \in UTXOs
    /\ consumed = 0

Consume ==
    /\ consumed < MaxConsume
    /\ utxo' = consume_utxo(utxo)
    /\ consumed' = consumed + 1
    /\ UNCHANGED <<op, arg, res>>

NextUTXO == Consume

SpecUTXO == InitUTXO /\ [][NextUTXO]_vars

-----------------------------------------------------------------------------
(* Claims. *)

\* the characters 0-9, A-F, a-f
HexDigitChars == {<<c>> : c \in (48..57) \cup (65..70) \cup (97..102)}

\* C1: read_pushdata never traps: on a script of fewer than 2 bytes it returns
\* an error result instead of panicking.
C1_ReadPushdataShortReturnsError ==
    (op = "read_pushdata" /\ Len(arg) < 2) => ~res.panicked

\* C2: from_byte is defined on all 256 byte values: 0xac gives OpChecksig, 0x76
\* gives OpDup, 0x00 gives the error "Invalid opcode: 0x00", and each of the
\* other 253 values gives the successful catch-all OpInvalid.
C2_FromByteTable ==
    op = "from_byte" =>
        /\ arg \in Byte
        /\ arg = 172 => res = Ok("OpChecksig")
        /\ arg = 118 => res = Ok("OpDup")
        /\ arg = 0 => res = Err("Invalid opcode: 0x00")
        /\ arg \notin {172, 118, 0} => res = Ok("OpInvalid")
        /\ Cardinality({b \in Byte : from_byte(b) = Ok("OpInvalid")}) = 253

C2_Witness == op = "from_byte" /\ arg = 0 /\ ~res.ok

\* C3: classify_script is total and decided by the length and the first byte:
\* length 3 with first byte 0x00 is P2WPKH, length 3 with any other first byte
\* is P2PKH, every other length (the empty script too) is Unknown.
C3_ClassifyByLengthAndFirstByte ==
    op = "classify_script" =>
        /\ res \in ScriptType
        /\ (Len(arg) = 3 /\ arg[1] = 0) => res = "P2WPKH"
        /\ (Len(arg) = 3 /\ arg[1] # 0) => res = "P2PKH"
        /\ Len(arg) # 3 => res = "Unknown"

C3_Witness ==
    /\ op = "classify_script"
    /\ Len(arg) = 3
    /\ arg[1] # 0
    /\ arg[2] = 0
    /\ res = "P2PKH"

\* C4: consume_utxo changes only the value field: the result has value 0 and
\* the txid and vout of its argument, whatever the argument's value was.
C4_ConsumeChangesOnlyValue ==
    op = "consume_utxo" =>
        /\ res.value = Zero64
        /\ res.txid = arg.txid
        /\ res.vout = arg.vout

C4_Witness ==
    /\ op = "consume_utxo"
    /\ arg.value # Zero64
    /\ arg.vout # <<0, 0>>
    /\ Len(arg.txid) > 0
    /\ res.value = Zero64

\* C5: spent is terminal: after any consume the value is 0, and once a UTXO
\* has been consumed a further consume returns it unchanged.
C5_SpentIsTerminal ==
    [][/\ consumed' >= 1 => utxo'.value = Zero64
       /\ consumed >= 1 => utxo' = utxo]_vars

C5_Witness == consumed >= 2 /\ utxo.value = Zero64 /\ Len(utxo.txid) > 0

\* C6: hex round trip: decoding bytes_to_hex(B) succeeds and returns B, through
\* hex_to_bytes and through decode_hex.
C6_HexRoundTrip ==
    op = "bytes_to_hex" =>
        /\ hex_to_bytes(res) = Ok(arg)
        /\ decode_hex(res) = Ok(arg)

C6_Witness ==
    /\ op = "bytes_to_hex"
    /\ Len(arg) >= 2
    /\ arg[1] = 15
    /\ arg[2] = 160

\* C7: both hex decoders fail, returning no bytes, exactly on the texts that
\* have an odd number of characters or a character outside 0-9a-fA-F.
C7_HexDecodeFailsOnMalformed ==
    op \in {"decode_hex", "hex_to_bytes"} =>
        LET malformed == \/ Len(arg) % 2 = 1
                         \/ \E i \in 1..Len(arg) : arg[i] \notin HexDigitChars
        IN  /\ malformed <=> ~res.ok
            /\ ~res.ok => DOMAIN res = {"ok", "err"}
            /\ decode_hex(Utf8(arg)).ok = hex_to_bytes(Utf8(arg)).ok

C7_Witness ==
    /\ op = "hex_to_bytes"
    /\ Len(arg) = 2
    /\ arg[1] = <<102>>
    /\ arg[2] = <<103>>
    /\ ~res.ok

\* C8: swap_endian_u32 returns exactly 4 bytes b0..b3, least significant
\* first, with b0 + b1*2^8 + b2*2^16 + b3*2^24 = V.  V is held as the limbs
\* <<lo, hi>> with V = lo + hi*2^16, so the equation is b0 + b1*2^8 = lo and
\* b2 + b3*2^8 = hi.
C8_LittleEndianInverse ==
    op = "swap_endian_u32" =>
        /\ Len(res) = 4
        /\ \A i \in 1..4 : res[i] \in Byte
        /\ res[1] + res[2] * 2^8 = arg[1]
        /\ res[3] + res[4] * 2^8 = arg[2]

C8_Witness ==
    /\ op = "swap_endian_u32"
    /\ arg = <<4660, LimbBase - 1>>
    /\ res = <<52, 18, 255, 255>>

\* C9: to_big_endian is an involution: the result has the length of B, its
\* element i is element len-1-i of B, and reversing it again gives B.
C9_ReverseInvolution ==
    op = "to_big_endian" =>
        /\ Len(res) = Len(arg)
        /\ \A i \in 1..Len(arg) : res[i] = arg[Len(arg) + 1 - i]
        /\ to_big_endian(res) = arg

C9_Witness ==
    /\ op = "to_big_endian"
    /\ Len(arg) >= 3
    /\ arg[1] # arg[Len(arg)]
    /\ res[1] = arg[Len(arg)]

\* C10: apply_fee never increases a balance: the balance after the call is at
\* most the balance before it, also when fee > balance.
C10_ApplyFeeNeverIncreases ==
    op = "apply_fee" => Leq(res.balance, arg.balance)

====
